---- MODULE Spec2Model ----
(***************************************************************************)
(* The PV plant pipeline of solar_functions.py: get_system and             *)
(* get_modelchain build the configuration, then get_effective_irradiance,  *)
(* run_pvwatts_dc, run_pvwatts_ac, run_plant_model and get_results are     *)
(* invoked, in any order and any number of times, on one ModelChain.       *)
(*                                                                         *)
(* Numbers.  The program computes in binary64.  The model computes in      *)
(* exact rationals extended with NaN, +inf and -inf: a value is a record   *)
(* [k, n, d] with k in {"fin","nan","pinf","ninf"}, and n/d in lowest      *)
(* terms with d > 0 when k = "fin".  Rounding is not modelled; the         *)
(* non-finite values and the two kinds of division of the program (Python  *)
(* scalars raise ZeroDivisionError, numpy/pandas values give inf or NaN)   *)
(* are.                                                                    *)
(*                                                                         *)
(* The pvlib and pvfactors calls (prepare_inputs .. temperature_model,     *)
(* run_timeseries_engine, pvwatts_dc, pvwatts_ac) are not code of this     *)
(* repository: their results are inputs, drawn from small sets.            *)
(***************************************************************************)
EXTENDS Integers, Sequences, FiniteSets

VARIABLES
  system,                         \* the PVSystem built by get_system
  mc,                             \* the scalar attributes get_modelchain sets
  weather,                        \* the caller's weather DataFrame
  effective_irradiance,           \* self.effective_irradiance (frontside, pvlib)
  back_irradiance,                \* self.back_irradiance
  front_irradiance,               \* self.front_irradiance
  effective_irradiance_bifacial,  \* self.effective_irradiance_bifacial
  soiling,                        \* self.soiling
  effective_irradiance_soiled,    \* self.effective_irradiance_soiled
  dc,                             \* self.dc   (DataFrame: column -> series)
  ac,                             \* self.ac
  plant,                          \* self.plant
  aep, ncf, energy_yield, pr,     \* the metrics get_results assigns
  outcome                         \* the last call and how it ended

vars == <<system, mc, weather, effective_irradiance, back_irradiance,
          front_irradiance, effective_irradiance_bifacial, soiling,
          effective_irradiance_soiled, dc, ac, plant, aep, ncf,
          energy_yield, pr, outcome>>

\* ------------------------------------------------------------------------
\* Bounds

\* Longest weather series (number of timesteps).
MaxLen == 2

\* ------------------------------------------------------------------------
\* Attributes that may not exist yet: None, or Some(x).

None == << >>
Some(x) == << x >>
Has(o) == o # None
Get(o) == o[1]

\* ------------------------------------------------------------------------
\* Extended rational arithmetic (the program's float arithmetic)

Abs(i) == IF i < 0 THEN -i ELSE i

RECURSIVE GCD(_, _)
GCD(a, b) == IF b = 0 THEN a ELSE GCD(b, a % b)

NaN == [k |-> "nan", n |-> 0, d |-> 1]
PInf == [k |-> "pinf", n |-> 0, d |-> 1]
NInf == [k |-> "ninf", n |-> 0, d |-> 1]

\* -0.0, the zero with the sign bit set: it compares equal to 0.0 and divides
\* to the infinity of the opposite sign.
NegZero == [k |-> "nzero", n |-> 0, d |-> 1]

\* The rational n/d (d # 0), in lowest terms with a positive denominator; 0 is
\* +0.0.
R(n, d) ==
  LET g == GCD(Abs(n), Abs(d))
      s == IF d < 0 THEN -1 ELSE 1
  IN [k |-> "fin", n |-> s * (n \div g), d |-> Abs(d) \div g]

Z(i) == R(i, 1)

IsFin(x) == x.k \in {"fin", "nzero"}
IsNaN(x) == x.k = "nan"
IsInf(x) == x.k \in {"pinf", "ninf"}
IsZero(x) == IsFin(x) /\ x.n = 0

\* The sign bit: set for the negative values, -inf and -0.0.
SignBit(x) == x.k \in {"ninf", "nzero"} \/ (x.k = "fin" /\ x.n < 0)

\* The infinity and the zero of a given sign bit.
InfOf(negative) == IF negative THEN NInf ELSE PInf
ZeroOf(negative) == IF negative THEN NegZero ELSE Z(0)

FNeg(x) ==
  CASE x.k = "fin" -> IF x.n = 0 THEN NegZero ELSE R(-x.n, x.d)
    [] x.k = "nzero" -> Z(0)
    [] x.k = "pinf" -> NInf
    [] x.k = "ninf" -> PInf
    [] OTHER -> NaN

\* A zero sum is -0.0 only when both terms are -0.0.
FAdd(x, y) ==
  IF IsNaN(x) \/ IsNaN(y) THEN NaN
  ELSE IF IsInf(x) /\ IsInf(y) THEN (IF x.k = y.k THEN x ELSE NaN)
  ELSE IF IsInf(x) THEN x
  ELSE IF IsInf(y) THEN y
  ELSE IF IsZero(x) /\ IsZero(y) THEN ZeroOf(SignBit(x) /\ SignBit(y))
  ELSE LET g == GCD(x.d, y.d)
       IN R(x.n * (y.d \div g) + y.n * (x.d \div g), (x.d \div g) * y.d)

FSub(x, y) == FAdd(x, FNeg(y))

\* The sign bit of a product is the exclusive or of the factors' sign bits,
\* for a zero product too.
FMul(x, y) ==
  IF IsNaN(x) \/ IsNaN(y) THEN NaN
  ELSE IF IsInf(x) \/ IsInf(y)
       THEN (IF IsZero(x) \/ IsZero(y) THEN NaN
             ELSE InfOf(SignBit(x) # SignBit(y)))
  ELSE IF IsZero(x) \/ IsZero(y) THEN ZeroOf(SignBit(x) # SignBit(y))
  ELSE LET g1 == GCD(Abs(x.n), y.d)
           g2 == GCD(Abs(y.n), x.d)
       IN R((x.n \div g1) * (y.n \div g2), (x.d \div g2) * (y.d \div g1))

\* Division of numpy and pandas values: x/0 is inf or NaN, never an error, and
\* the sign bit of the quotient is the exclusive or of the operands' sign bits.
FDiv(x, y) ==
  IF IsNaN(x) \/ IsNaN(y) THEN NaN
  ELSE IF IsInf(y)
       THEN (IF IsInf(x) THEN NaN ELSE ZeroOf(SignBit(x) # SignBit(y)))
  ELSE IF IsZero(y)
       THEN (IF IsZero(x) THEN NaN ELSE InfOf(SignBit(x) # SignBit(y)))
  ELSE IF IsInf(x) THEN InfOf(SignBit(x) # SignBit(y))
  ELSE FMul(x, R(y.d, y.n))

\* Comparisons: every comparison with NaN is false; -0.0 equals 0.0.
FLt(x, y) ==
  IF IsNaN(x) \/ IsNaN(y) THEN FALSE
  ELSE IF x.k = "pinf" \/ y.k = "ninf" THEN FALSE
  ELSE IF x.k = "ninf" \/ y.k = "pinf" THEN TRUE
  ELSE x.n * y.d < y.n * x.d

FEq(x, y) == ~IsNaN(x) /\ ~IsNaN(y) /\ (x = y \/ (IsZero(x) /\ IsZero(y)))

FLe(x, y) == FLt(x, y) \/ FEq(x, y)

\* ------------------------------------------------------------------------
\* The outcome of a call: the method called and how it ended ("ok", or the
\* exception it raised).

Ended(call, result) == [call |-> call, result |-> result]

\* ------------------------------------------------------------------------
\* Series: a sequence of values, one per timestep

\* The series of n timesteps over the samples <<v1, .., vk>>, one per multiset
\* of samples (its samples in the order of the tuple): every stage works
\* timestep by timestep and the sums do not depend on the order of the
\* timesteps, so a permutation of a series adds nothing.
SeriesOver(samples, n) ==
  { [t \in 1 .. n |-> samples[f[t]]] :
      f \in { g \in [1 .. n -> 1 .. Len(samples)] :
                \A t \in 1 .. n - 1 : g[t] <= g[t + 1] } }

\* Series.fillna(0)
fillna0(s) == [t \in DOMAIN s |-> IF IsNaN(s[t]) THEN Z(0) ELSE s[t]]

\* ClampNegative with the assignment s[s < 0] = 0 lost.
ClampNegative_NotApplied(x) == x

\* s[s < 0] = 0 on one sample: NaN < 0 is false, so NaN stays.
ClampNegative(x) == IF FLt(x, Z(0)) THEN Z(0) ELSE x

\* Series.sum(): pandas (skipna=True) puts 0 in the place of every NaN and
\* numpy adds the samples up; the sum of samples that are all -0.0 is -0.0,
\* the sum of no sample is 0.0.
RECURSIVE SumFrom(_, _)
SumFrom(s, t) ==
  IF t = 0 THEN NegZero
  ELSE FAdd(SumFrom(s, t - 1), IF IsNaN(s[t]) THEN Z(0) ELSE s[t])

Sum(s) == IF Len(s) = 0 THEN Z(0) ELSE SumFrom(s, Len(s))

\* ------------------------------------------------------------------------
\* Configuration: get_system and get_modelchain

\* racking: "tracker", "ground-mount", "rooftop" or "canopy".  backtrack, albedo
\* and module_parameters are the caller's arguments; lib_albedo is the albedo
\* attribute the PVSystem constructor of pvlib leaves on the object, if any.
get_system(racking, backtrack, albedo, module_parameters, lib_albedo) ==
  IF racking = "tracker"
  THEN [tracker |-> TRUE,
        backtrack |-> backtrack,
        albedo |-> lib_albedo,
        module_parameters |-> module_parameters]
  ELSE [tracker |-> FALSE,
        backtrack |-> FALSE,
        albedo |-> IF racking # "ground-mount" THEN Some(albedo) ELSE lib_albedo,
        module_parameters |->
          IF racking = "rooftop"
          THEN [module_parameters EXCEPT !.bifaciality = Z(0)]
          ELSE module_parameters]

\* p: the keyword arguments of get_modelchain, stored as they are given.
get_modelchain(sys, p) ==
  [bifacial_losses |-> p.bifacial_losses,
   dc_losses |-> p.dc_losses,
   ac_capacity |-> p.ac_capacity,
   inverter_efficiency_peak |-> p.inverter_efficiency_peak,
   pmt_peak_loss |-> p.pmt_peak_loss,
   pmt_rating |-> p.pmt_rating,
   pmt_constant_loss |-> p.pmt_constant_loss,
   ac_collection |-> p.ac_collection,
   mpt_peak_loss |-> p.mpt_peak_loss,
   mpt_bottom_rating |-> p.mpt_bottom_rating,
   mpt_constant_loss |-> p.mpt_constant_loss,
   transmission_loss |-> p.transmission_loss,
   poi_capacity |-> p.poi_capacity,
   plant_losses |-> p.plant_losses,
   time_step |-> p.time_step,
   dc_capacity |-> sys.module_parameters.pdc0]

\* ------------------------------------------------------------------------
\* get_effective_irradiance

\* 'Etc/GMT+' + str(-utc_offset) names a time zone only for -utc_offset in 0..12.
TzKnown(utc_offset) == -utc_offset \in 0 .. 12

\* The index after tz_localize (a naive index keeps its wall-clock times) or
\* tz_convert (an aware index keeps its instants and shifts its wall-clock times).
LocalizedIndex(index, utc_offset) ==
  IF ~index.aware
  THEN [aware |-> TRUE, offset |-> utc_offset, wall |-> index.wall]
  ELSE [aware |-> TRUE, offset |-> utc_offset,
        wall |-> [t \in DOMAIN index.wall |->
                    index.wall[t] + (utc_offset - index.offset)]]

\* weather.albedo = self.system.albedo inside try/except: set when the system has
\* the attribute, left alone otherwise.
AlbedoOverride(w_albedo, sys) == IF Has(sys.albedo) THEN sys.albedo ELSE w_albedo

\* Frontside with the two branches exchanged.
Frontside_Exchanged(sys, eff, front) == IF sys.backtrack THEN front ELSE eff

\* Frontside term: pvlib's effective irradiance for backtracking systems, the
\* view-factor front irradiance otherwise.
Frontside(sys, eff, front) == IF sys.backtrack THEN eff ELSE front

\* BifacialCombine with the parentheses around 1 - bifacial_losses lost:
\* frontside + (back * bifaciality * 1 - bifacial_losses).
BifacialCombine_NoParentheses(frontside, back, bifaciality, bifacial_losses) ==
  FAdd(frontside, FSub(FMul(back, bifaciality), bifacial_losses))

\* frontside + back * (bifaciality * (1 - bifacial_losses)), one sample.
BifacialCombine(frontside, back, bifaciality, bifacial_losses) ==
  FAdd(frontside, FMul(back, FMul(bifaciality, FSub(Z(1), bifacial_losses))))

\* effective_irradiance_bifacial * (1 - soiling), one sample.
Soiled(bifacial, soil) == FMul(bifacial, FSub(Z(1), soil))

get_effective_irradiance(E) ==
  \E utc_offset \in E.utc_offset :
    LET n == Len(weather.index.wall) IN
    IF ~TzKnown(utc_offset)
    THEN /\ outcome' = Ended("get_effective_irradiance", "UnknownTimeZoneError")
         /\ UNCHANGED <<system, mc, weather, effective_irradiance,
                        back_irradiance, front_irradiance,
                        effective_irradiance_bifacial, soiling,
                        effective_irradiance_soiled, dc, ac, plant, aep, ncf,
                        energy_yield, pr>>
    ELSE \E upstream \in SeriesOver(E.upstream, n) :
           \* one sample of upstream: what pvlib (effective_irradiance) and
           \* pvfactors (total_inc_front, total_inc_back) give for a timestep
           LET eff == fillna0([t \in 1 .. n |-> upstream[t].effective_irradiance])
               back == fillna0([t \in 1 .. n |-> upstream[t].total_inc_back])
               front == fillna0([t \in 1 .. n |-> upstream[t].total_inc_front])
               bifacial ==
                 [t \in 1 .. n |->
                    BifacialCombine(Frontside(system, eff[t], front[t]), back[t],
                                    system.module_parameters.bifaciality,
                                    mc.bifacial_losses)]
           IN /\ weather' =
                   [weather EXCEPT
                      !.index = LocalizedIndex(@, utc_offset),
                      !.albedo = AlbedoOverride(@, system)]
              /\ effective_irradiance' = Some(eff)
              /\ back_irradiance' = Some(back)
              /\ front_irradiance' = Some(front)
              /\ effective_irradiance_bifacial' = Some(bifacial)
              /\ soiling' = Some(weather.soiling)
              /\ effective_irradiance_soiled' =
                   Some([t \in 1 .. n |-> Soiled(bifacial[t], weather.soiling[t])])
              /\ outcome' = Ended("get_effective_irradiance", "ok")
              /\ UNCHANGED <<system, mc, dc, ac, plant, aep, ncf, energy_yield, pr>>

\* ------------------------------------------------------------------------
\* run_pvwatts_dc

\* dc.pdc * dc_losses
DcLosses(pdc, m) == FMul(pdc, m.dc_losses)

\* dc.pdc - dc.losses
DcOutput(pdc, m) == FSub(pdc, DcLosses(pdc, m))

\* ac_capacity / inverter_efficiency_peak, two Python scalars: the division
\* raises ZeroDivisionError when the divisor is 0.0 or -0.0, so it is asked for only with
\* PyDivides(m.inverter_efficiency_peak).  A divisor of inf, -inf or NaN
\* raises nothing: the quotient is 0.0 or nan, as FDiv gives it.
PyDivides(divisor) == ~IsZero(divisor)

InverterDcLimit(m) == FDiv(m.ac_capacity, m.inverter_efficiency_peak)

\* dc.output - limit, with the negative samples set to 0
DcClipping(output, m) == ClampNegative(FSub(output, InverterDcLimit(m)))

run_pvwatts_dc(E) ==
  IF ~Has(effective_irradiance_soiled)
  THEN /\ outcome' = Ended("run_pvwatts_dc", "AttributeError")
       /\ UNCHANGED <<system, mc, weather, effective_irradiance,
                      back_irradiance, front_irradiance,
                      effective_irradiance_bifacial, soiling,
                      effective_irradiance_soiled, dc, ac, plant, aep, ncf,
                      energy_yield, pr>>
  ELSE \E pdc \in SeriesOver(E.pdc, Len(Get(effective_irradiance_soiled))) :
         LET n == Len(pdc)
             losses == [t \in 1 .. n |-> DcLosses(pdc[t], mc)]
             output == [t \in 1 .. n |-> DcOutput(pdc[t], mc)]
         IN /\ IF PyDivides(mc.inverter_efficiency_peak)
               THEN /\ dc' = Some([pdc |-> pdc, losses |-> losses,
                                   output |-> output,
                                   clipping |->
                                     [t \in 1 .. n |-> DcClipping(output[t], mc)]])
                    /\ outcome' = Ended("run_pvwatts_dc", "ok")
               ELSE \* self.dc holds pdc, losses and output when line 399 raises
                    /\ dc' = Some([pdc |-> pdc, losses |-> losses,
                                   output |-> output])
                    /\ outcome' = Ended("run_pvwatts_dc", "ZeroDivisionError")
            /\ UNCHANGED <<system, mc, weather, effective_irradiance,
                           back_irradiance, front_irradiance,
                           effective_irradiance_bifacial, soiling,
                           effective_irradiance_soiled, ac, plant, aep, ncf,
                           energy_yield, pr>>

\* ------------------------------------------------------------------------
\* run_pvwatts_ac

\* The fixed per-unit voltage .98 of the transformer loss curve.
PerUnitVoltage == R(98, 100)

Square(x) == FMul(x, x)

\* pmt_out with the constant loss left out of the loss.
pmt_out_NoConstantLoss(pac, m) ==
  ClampNegative(
    FSub(pac,
         FMul(m.pmt_peak_loss,
              Square(FDiv(FDiv(pac, PerUnitVoltage), m.pmt_rating)))))

\* pac - (pmt_peak_loss * (pac / .98 / pmt_rating)**2 + pmt_constant_loss),
\* with the negative samples set to 0
pmt_out(pac, m) ==
  ClampNegative(
    FSub(pac,
         FAdd(FMul(m.pmt_peak_loss,
                   Square(FDiv(FDiv(pac, PerUnitVoltage), m.pmt_rating))),
              m.pmt_constant_loss)))

\* mpt_in with the loss fraction taken for the fraction that is kept.
mpt_in_FractionLost(pac, m) == FMul(pmt_out(pac, m), m.ac_collection)

\* pmt_out * (1 - ac_collection)
mpt_in(pac, m) == FMul(pmt_out(pac, m), FSub(Z(1), m.ac_collection))

\* mpt_out with the assignment mpt_out[mpt_out < 0] = 0 lost.
mpt_out_NotClamped(pac, m) ==
  FSub(mpt_in(pac, m),
       FAdd(FMul(m.mpt_peak_loss,
                 Square(FDiv(FDiv(mpt_in(pac, m), PerUnitVoltage),
                             m.mpt_bottom_rating))),
            m.mpt_constant_loss))

\* mpt_in - (mpt_peak_loss * (mpt_in / .98 / mpt_bottom_rating)**2
\*           + mpt_constant_loss), with the negative samples set to 0
mpt_out(pac, m) ==
  ClampNegative(
    FSub(mpt_in(pac, m),
         FAdd(FMul(m.mpt_peak_loss,
                   Square(FDiv(FDiv(mpt_in(pac, m), PerUnitVoltage),
                               m.mpt_bottom_rating))),
              m.mpt_constant_loss)))

\* mpt_out * (1 - transmission_loss)
AcOutput(pac, m) == FMul(mpt_out(pac, m), FSub(Z(1), m.transmission_loss))

\* ac.pac - ac.output
AcLosses(pac, m) == FSub(pac, AcOutput(pac, m))

\* ac.output - poi_capacity, with the negative samples set to 0
AcClipping(output, m) == ClampNegative(FSub(output, m.poi_capacity))

run_pvwatts_ac(E) ==
  IF ~Has(dc) \/ ~PyDivides(mc.inverter_efficiency_peak)
  THEN /\ outcome' = Ended("run_pvwatts_ac",
                           IF ~Has(dc) THEN "AttributeError"
                           ELSE "ZeroDivisionError")
       /\ UNCHANGED <<system, mc, weather, effective_irradiance,
                      back_irradiance, front_irradiance,
                      effective_irradiance_bifacial, soiling,
                      effective_irradiance_soiled, dc, ac, plant, aep, ncf,
                      energy_yield, pr>>
  ELSE \E pac \in SeriesOver(E.pac, Len(Get(dc).output)) :
         LET n == Len(pac)
             output == [t \in 1 .. n |-> AcOutput(pac[t], mc)]
         IN /\ ac' = Some([pac |-> pac,
                           output |-> output,
                           losses |-> [t \in 1 .. n |-> AcLosses(pac[t], mc)],
                           clipping |->
                             [t \in 1 .. n |-> AcClipping(output[t], mc)]])
            /\ outcome' = Ended("run_pvwatts_ac", "ok")
            /\ UNCHANGED <<system, mc, weather, effective_irradiance,
                           back_irradiance, front_irradiance,
                           effective_irradiance_bifacial, soiling,
                           effective_irradiance_soiled, dc, plant, aep, ncf,
                           energy_yield, pr>>

\* ------------------------------------------------------------------------
\* run_plant_model

\* ac.output - ac.clipping
PlantOutput(ac_output, ac_clipping) == FSub(ac_output, ac_clipping)

\* plant.output * plant_losses
PlantLosses(output, m) == FMul(output, m.plant_losses)

\* run_plant_model reading self.dc where it should read self.ac.
run_plant_model_ReadsDc ==
  IF ~Has(dc) \/ "clipping" \notin DOMAIN Get(dc)
  THEN /\ outcome' = Ended("run_plant_model", "AttributeError")
       /\ UNCHANGED <<system, mc, weather, effective_irradiance,
                      back_irradiance, front_irradiance,
                      effective_irradiance_bifacial, soiling,
                      effective_irradiance_soiled, dc, ac, plant, aep, ncf,
                      energy_yield, pr>>
  ELSE LET n == Len(Get(dc).output)
           output == [t \in 1 .. n |->
                        PlantOutput(Get(dc).output[t], Get(dc).clipping[t])]
       IN /\ plant' = Some([output |-> output,
                            losses |-> [t \in 1 .. n |->
                                          PlantLosses(output[t], mc)]])
          /\ outcome' = Ended("run_plant_model", "ok")
          /\ UNCHANGED <<system, mc, weather, effective_irradiance,
                         back_irradiance, front_irradiance,
                         effective_irradiance_bifacial, soiling,
                         effective_irradiance_soiled, dc, ac, aep, ncf,
                         energy_yield, pr>>

run_plant_model ==
  IF ~Has(ac)
  THEN /\ outcome' = Ended("run_plant_model", "AttributeError")
       /\ UNCHANGED <<system, mc, weather, effective_irradiance,
                      back_irradiance, front_irradiance,
                      effective_irradiance_bifacial, soiling,
                      effective_irradiance_soiled, dc, ac, plant, aep, ncf,
                      energy_yield, pr>>
  ELSE LET n == Len(Get(ac).output)
           output == [t \in 1 .. n |->
                        PlantOutput(Get(ac).output[t], Get(ac).clipping[t])]
       IN /\ plant' = Some([output |-> output,
                            losses |-> [t \in 1 .. n |->
                                          PlantLosses(output[t], mc)]])
          /\ outcome' = Ended("run_plant_model", "ok")
          /\ UNCHANGED <<system, mc, weather, effective_irradiance,
                         back_irradiance, front_irradiance,
                         effective_irradiance_bifacial, soiling,
                         effective_irradiance_soiled, dc, ac, aep, ncf,
                         energy_yield, pr>>

\* ------------------------------------------------------------------------
\* get_results

MinutesPerHour == 60
HoursPerYear == 8760
WattsPerKilowatt == 1000

\* (plant.output.sum() - plant.losses.sum()) * time_step / 60
Aep(p, m) ==
  FDiv(FMul(FSub(Sum(p.output), Sum(p.losses)), m.time_step), Z(MinutesPerHour))

\* Ncf annualised against the hours the series spans, len(plant) * time_step / 60,
\* instead of the 8760 hours of a year.
Ncf_ActualSpan(a, m) ==
  FDiv(FDiv(a, m.poi_capacity),
       FDiv(FMul(Z(Len(Get(plant).output)), m.time_step), Z(MinutesPerHour)))

\* aep / poi_capacity / 8760: aep is a numpy value, so a zero poi_capacity gives
\* inf or NaN
Ncf(a, m) == FDiv(FDiv(a, m.poi_capacity), Z(HoursPerYear))

\* EnergyYield guarded against a zero dc_capacity.
EnergyYield_ZeroGuarded(a, m) ==
  IF m.dc_capacity = Z(0) THEN Z(0) ELSE FDiv(a, m.dc_capacity)

\* aep / dc_capacity
EnergyYield(a, m) == FDiv(a, m.dc_capacity)

\* 1 - aep / (effective_irradiance.sum() * time_step / 60 *
\*            (dc_capacity / efficiency / 1000)); the parenthesis divides Python
\* scalars and is asked for only with PyDivides(efficiency).
Pr(a, eff, m, efficiency) ==
  FSub(Z(1),
       FDiv(a,
            FMul(FDiv(FMul(Sum(eff), m.time_step), Z(MinutesPerHour)),
                 FDiv(FDiv(m.dc_capacity, efficiency), Z(WattsPerKilowatt)))))

get_results ==
  IF ~Has(plant)
  THEN /\ outcome' = Ended("get_results", "AttributeError")
       /\ UNCHANGED <<system, mc, weather, effective_irradiance,
                      back_irradiance, front_irradiance,
                      effective_irradiance_bifacial, soiling,
                      effective_irradiance_soiled, dc, ac, plant, aep, ncf,
                      energy_yield, pr>>
  ELSE LET a == Aep(Get(plant), mc)
           efficiency == system.module_parameters.efficiency
       IN /\ aep' = Some(a)
          /\ ncf' = Some(Ncf(a, mc))
          /\ energy_yield' = Some(EnergyYield(a, mc))
          /\ IF ~Has(effective_irradiance)
             THEN pr' = pr /\ outcome' = Ended("get_results", "AttributeError")
             ELSE IF ~PyDivides(efficiency)
             THEN pr' = pr /\ outcome' = Ended("get_results", "ZeroDivisionError")
             ELSE /\ pr' = Some(Pr(a, Get(effective_irradiance), mc, efficiency))
                  /\ outcome' = Ended("get_results", "ok")
          /\ UNCHANGED <<system, mc, weather, effective_irradiance,
                         back_irradiance, front_irradiance,
                         effective_irradiance_bifacial, soiling,
                         effective_irradiance_soiled, dc, ac, plant>>

\* ------------------------------------------------------------------------
\* Inputs

\* A weather DataFrame of n hourly rows: its index (naive, or aware at a UTC
\* offset), the soiling column (get_psm3 assigns one constant) and no albedo
\* attribute.
Weather(aware, offset, n, soiling_loss) ==
  [index |-> [aware |-> aware, offset |-> offset, wall |-> [t \in 1 .. n |-> t - 1]],
   soiling |-> [t \in 1 .. n |-> soiling_loss],
   albedo |-> None]

NaiveIndex == [aware |-> FALSE, offset |-> 0]
UtcIndex == [aware |-> TRUE, offset |-> 0]

Weathers(indexes, soiling_losses) ==
  { Weather(i.aware, i.offset, n, s) :
      i \in indexes, n \in 1 .. MaxLen, s \in soiling_losses }

\* What pvlib and pvfactors give for one timestep.
Upstream(eff, front, back) ==
  [effective_irradiance |-> eff, total_inc_front |-> front, total_inc_back |-> back]

ClearSky == Upstream(Z(800), Z(900), Z(100))

BaseModule == [pdc0 |-> Z(1000), bifaciality |-> R(7, 10), efficiency |-> R(1, 5)]

\* A plant whose padmount transformer has a quadratic loss: with pmt_rating 50,
\* pac / .98 / pmt_rating is pac / 49.
BaseParams ==
  [bifacial_losses |-> R(1, 10), dc_losses |-> R(1, 50),
   ac_capacity |-> Z(98), inverter_efficiency_peak |-> R(49, 50),
   pmt_peak_loss |-> Z(3), pmt_rating |-> Z(50), pmt_constant_loss |-> Z(1),
   ac_collection |-> R(1, 2),
   mpt_peak_loss |-> Z(0), mpt_bottom_rating |-> Z(50), mpt_constant_loss |-> Z(1),
   transmission_loss |-> R(1, 10), poi_capacity |-> Z(20),
   plant_losses |-> R(1, 10), time_step |-> Z(60)]

\* No loss anywhere and both clipping limits (1000) above every sample.
LosslessParams ==
  [BaseParams EXCEPT
     !.dc_losses = Z(0), !.pmt_peak_loss = Z(0), !.pmt_constant_loss = Z(0),
     !.ac_collection = Z(0), !.mpt_peak_loss = Z(0), !.mpt_constant_loss = Z(0),
     !.transmission_loss = Z(0), !.plant_losses = Z(0), !.poi_capacity = Z(1000),
     !.ac_capacity = Z(980)]

\* The quadratic loss on the main power transformer instead, large enough to
\* exceed its input at twice the rating; nothing passes the POI.
MptParams ==
  [BaseParams EXCEPT
     !.pmt_peak_loss = Z(0), !.pmt_constant_loss = Z(0), !.ac_collection = Z(0),
     !.mpt_peak_loss = Z(30), !.poi_capacity = Z(0)]

\* Constant transformer losses only.
ConstantLossParams ==
  [LosslessParams EXCEPT !.pmt_constant_loss = Z(1), !.mpt_constant_loss = Z(1)]

TrackerSystem == get_system("tracker", TRUE, Z(0), BaseModule, None)

\* The state after get_system and get_modelchain, before any stage has run.
InitWith(Systems, Params, Ws) ==
  /\ system \in Systems
  /\ mc \in { get_modelchain(system, p) : p \in Params }
  /\ weather \in Ws
  /\ effective_irradiance = None
  /\ back_irradiance = None
  /\ front_irradiance = None
  /\ effective_irradiance_bifacial = None
  /\ soiling = None
  /\ effective_irradiance_soiled = None
  /\ dc = None
  /\ ac = None
  /\ plant = None
  /\ aep = None
  /\ ncf = None
  /\ energy_yield = None
  /\ pr = None
  /\ outcome = Ended("get_modelchain", "ok")

\* ------------------------------------------------------------------------
\* Spec: the electrical cascade.  DC power below and above the inverter limit,
\* AC power below and above the POI limit, and a plant whose
\* inverter_efficiency_peak is 0.

Env ==
  [utc_offset |-> {-5, 5},
   upstream |-> <<ClearSky>>,
   pdc |-> <<Z(-10), Z(200)>>,
   pac |-> <<Z(49), Z(98)>>]

Init ==
  InitWith({TrackerSystem},
           {BaseParams, LosslessParams,
            [BaseParams EXCEPT !.inverter_efficiency_peak = Z(0)]},
           Weathers({NaiveIndex, UtcIndex}, {R(1, 50)}))

Next ==
  \/ get_effective_irradiance(Env)
  \/ run_pvwatts_dc(Env)
  \/ run_pvwatts_ac(Env)
  \/ run_plant_model
  \/ get_results

Spec == Init /\ [][Next]_vars

\* ------------------------------------------------------------------------
\* SpecTransformer: the two transformers at no load, below the constant loss
\* and at rated load (pac <= pmt_rating, mpt_in <= mpt_bottom_rating).

EnvTransformer ==
  [utc_offset |-> {-5, 5},
   upstream |-> <<ClearSky>>,
   pdc |-> <<Z(200)>>,
   pac |-> <<Z(0), R(1, 2), Z(49)>>]

InitTransformer ==
  InitWith({TrackerSystem}, {BaseParams, MptParams, ConstantLossParams},
           Weathers({NaiveIndex}, {R(1, 50)}))

NextTransformer ==
  \/ get_effective_irradiance(EnvTransformer)
  \/ run_pvwatts_dc(EnvTransformer)
  \/ run_pvwatts_ac(EnvTransformer)
  \/ run_plant_model
  \/ get_results

SpecTransformer == InitTransformer /\ [][NextTransformer]_vars

\* ------------------------------------------------------------------------
\* SpecOverload: any AC power, also what pvwatts_ac never returns (negative, or
\* a hundred times the transformer rating), and a line that loses everything.

EnvOverload ==
  [utc_offset |-> {-5, 5},
   upstream |-> <<ClearSky>>,
   pdc |-> <<Z(200)>>,
   pac |-> <<Z(-49), Z(98), Z(4900)>>]

InitOverload ==
  InitWith({TrackerSystem},
           {BaseParams, MptParams,
            [BaseParams EXCEPT !.transmission_loss = Z(1)],
            [ConstantLossParams EXCEPT !.poi_capacity = Z(50)]},
           Weathers({NaiveIndex}, {R(1, 50)}))

NextOverload ==
  \/ get_effective_irradiance(EnvOverload)
  \/ run_pvwatts_dc(EnvOverload)
  \/ run_pvwatts_ac(EnvOverload)
  \/ run_plant_model
  \/ get_results

SpecOverload == InitOverload /\ [][NextOverload]_vars

\* ------------------------------------------------------------------------
\* SpecIrradiance: every racking, with and without backtracking asked for,
\* with and without bifaciality and bifacial losses; upstream samples with and
\* without missing values.

Rackings == {"tracker", "ground-mount", "rooftop", "canopy"}

IrradianceSystems ==
  { get_system(racking, backtrack, R(1, 5),
               [BaseModule EXCEPT !.bifaciality = bifaciality], lib_albedo) :
      racking \in Rackings, backtrack \in BOOLEAN,
      bifaciality \in {Z(0), R(7, 10)}, lib_albedo \in {None, Some(R(1, 4))} }

EnvIrradiance ==
  [utc_offset |-> {-5, 5},
   upstream |-> <<ClearSky, Upstream(Z(800), Z(900), NaN), Upstream(NaN, NaN, Z(50))>>,
   pdc |-> <<Z(200)>>,
   pac |-> <<Z(49)>>]

InitIrradiance ==
  InitWith(IrradianceSystems,
           {BaseParams, [BaseParams EXCEPT !.bifacial_losses = Z(0)]},
           Weathers({NaiveIndex, UtcIndex}, {R(1, 50)}))

NextIrradiance ==
  \/ get_effective_irradiance(EnvIrradiance)
  \/ run_pvwatts_dc(EnvIrradiance)
  \/ run_pvwatts_ac(EnvIrradiance)
  \/ run_plant_model
  \/ get_results

SpecIrradiance == InitIrradiance /\ [][NextIrradiance]_vars

\* ------------------------------------------------------------------------
\* SpecMetrics: half-hourly and hourly series of every length, with zero and
\* nonzero poi_capacity, dc_capacity (pdc0) and module efficiency, and with an
\* infinite module efficiency of either sign, which divides without error.

MetricsSystems ==
  { get_system("tracker", TRUE, Z(0),
               [BaseModule EXCEPT !.pdc0 = pdc0, !.efficiency = efficiency], None) :
      pdc0 \in {Z(0), Z(1000)}, efficiency \in {Z(0), R(1, 5), PInf, NInf} }

MetricsParams ==
  { BaseParams,
    [BaseParams EXCEPT !.time_step = Z(30), !.poi_capacity = Z(40)],
    [BaseParams EXCEPT !.poi_capacity = Z(0)] }

EnvMetrics ==
  [utc_offset |-> {-5, 5},
   upstream |-> <<ClearSky>>,
   pdc |-> <<Z(200)>>,
   pac |-> <<Z(49), Z(98)>>]

InitMetrics ==
  InitWith(MetricsSystems, MetricsParams, Weathers({NaiveIndex}, {R(1, 50)}))

NextMetrics ==
  \/ get_effective_irradiance(EnvMetrics)
  \/ run_pvwatts_dc(EnvMetrics)
  \/ run_pvwatts_ac(EnvMetrics)
  \/ run_plant_model
  \/ get_results

SpecMetrics == InitMetrics /\ [][NextMetrics]_vars

\* ------------------------------------------------------------------------
\* Claims

Positive(x) == FLt(Z(0), x)
NonNegative(x) == FLe(Z(0), x)

\* max(0, x - ceiling), as the claims state it
ExcessOver(x, ceiling) == IF FLt(ceiling, x) THEN FSub(x, ceiling) ELSE Z(0)

\* A stage has completed when its DataFrame holds all its columns.
DcComplete == Has(dc) /\ DOMAIN Get(dc) = {"pdc", "losses", "output", "clipping"}
AcComplete == Has(ac) /\ DOMAIN Get(ac) = {"pac", "output", "losses", "clipping"}
PlantComplete == Has(plant) /\ DOMAIN Get(plant) = {"output", "losses"}
IrradianceComplete ==
  /\ Has(effective_irradiance) /\ Has(back_irradiance) /\ Has(front_irradiance)
  /\ Has(effective_irradiance_bifacial) /\ Has(soiling)
  /\ Has(effective_irradiance_soiled)

\* C1: once run_pvwatts_dc has assigned dc.clipping, every dc.clipping[t] is >= 0
\* and equals max(0, dc.output[t] - ac_capacity / inverter_efficiency_peak);
\* once run_pvwatts_ac has assigned ac.clipping, every ac.clipping[t] is >= 0
\* and equals max(0, ac.output[t] - poi_capacity).
C1_ClippingNonNegative ==
  /\ DcComplete =>
       \A t \in DOMAIN Get(dc).clipping :
         /\ NonNegative(Get(dc).clipping[t])
         /\ Get(dc).clipping[t] =
              ExcessOver(Get(dc).output[t],
                         FDiv(mc.ac_capacity, mc.inverter_efficiency_peak))
  /\ AcComplete =>
       \A t \in DOMAIN Get(ac).clipping :
         /\ NonNegative(Get(ac).clipping[t])
         /\ Get(ac).clipping[t] = ExcessOver(Get(ac).output[t], mc.poi_capacity)

\* Both stages have run on a series with a sample above and a sample below the
\* ceiling, on each side.
C1_Witness ==
  /\ DcComplete /\ AcComplete
  /\ \E t, u \in DOMAIN Get(dc).clipping :
       /\ Positive(Get(dc).clipping[t])
       /\ FLt(Get(dc).output[u], FDiv(mc.ac_capacity, mc.inverter_efficiency_peak))
       /\ Get(dc).clipping[u] = Z(0)
  /\ \E t, u \in DOMAIN Get(ac).clipping :
       /\ Positive(Get(ac).clipping[t])
       /\ FLt(Get(ac).output[u], mc.poi_capacity)
       /\ Get(ac).clipping[u] = Z(0)

\* The premises of the lossless round trip.
Lossless ==
  /\ mc.dc_losses = Z(0) /\ mc.ac_collection = Z(0)
  /\ mc.transmission_loss = Z(0) /\ mc.plant_losses = Z(0)
  /\ mc.pmt_peak_loss = Z(0) /\ mc.pmt_constant_loss = Z(0)
  /\ mc.mpt_peak_loss = Z(0) /\ mc.mpt_constant_loss = Z(0)

CeilingsAboveSeries ==
  /\ \A t \in DOMAIN Get(dc).output :
       FLt(Get(dc).output[t], FDiv(mc.ac_capacity, mc.inverter_efficiency_peak))
  /\ \A t \in DOMAIN Get(ac).pac : FLt(Get(ac).pac[t], mc.poi_capacity)

\* C2: with every loss fraction and transformer loss constant 0 and both
\* clipping ceilings above the series, when run_plant_model has run after
\* run_pvwatts_ac, plant.output[t] equals ac.pac[t] at every timestep.
C2_LosslessRoundTrip ==
  (outcome = Ended("run_plant_model", "ok") /\ Lossless /\ CeilingsAboveSeries)
    => /\ Len(Get(plant).output) = Len(Get(ac).pac)
       /\ \A t \in DOMAIN Get(ac).pac : FEq(Get(plant).output[t], Get(ac).pac[t])

C2_Witness ==
  /\ outcome = Ended("run_plant_model", "ok") /\ Lossless /\ CeilingsAboveSeries
  /\ \E t, u \in DOMAIN Get(ac).pac : Get(ac).pac[t] # Get(ac).pac[u]
  /\ \A t \in DOMAIN Get(ac).pac : Positive(Get(plant).output[t])

\* C7: in every step, a stage produces output only if its predecessor has
\* completed, and a stage called before its predecessor has completed does not
\* end "ok" and leaves its output as it was.
C7_StageOrder ==
  [][/\ (dc' # dc) => IrradianceComplete
     /\ (ac' # ac) => DcComplete
     /\ (plant' # plant) => AcComplete
     /\ (<<aep, ncf, energy_yield, pr>>' # <<aep, ncf, energy_yield, pr>>)
          => PlantComplete /\ IrradianceComplete
     /\ (outcome'.call = "run_pvwatts_dc" /\ ~IrradianceComplete)
          => outcome'.result = "AttributeError" /\ dc' = dc
     /\ (outcome'.call = "run_pvwatts_ac" /\ ~DcComplete)
          => outcome'.result # "ok" /\ ac' = ac
     /\ (outcome'.call = "run_plant_model" /\ ~AcComplete)
          => outcome'.result = "AttributeError" /\ plant' = plant
     /\ (outcome'.call = "get_results" /\ ~PlantComplete)
          => /\ outcome'.result = "AttributeError"
             /\ <<aep, ncf, energy_yield, pr>>' = <<aep, ncf, energy_yield, pr>>
    ]_vars

\* run_plant_model was called with the DC stage done and the AC stage not yet
\* run, and failed on the missing self.ac.
C7_Witness ==
  /\ outcome = Ended("run_plant_model", "AttributeError")
  /\ DcComplete /\ ~Has(ac) /\ ~Has(plant)

\* The premises of C3 at timestep t: both transformer inputs within the rated
\* capacity.
WithinRating(t) ==
  /\ FLe(Get(ac).pac[t], mc.pmt_rating)
  /\ FLe(mpt_in(Get(ac).pac[t], mc), mc.mpt_bottom_rating)

\* C3 as the spec states it: at every timestep within the rated capacity, with
\* nonzero constant-loss terms, each transformer's output is strictly less than
\* its input, also where the input is 0 or below the constant loss.
C3_StrictLossAtEveryTimestep ==
  (AcComplete /\ mc.pmt_constant_loss # Z(0) /\ mc.mpt_constant_loss # Z(0))
    => \A t \in DOMAIN Get(ac).pac :
         WithinRating(t)
           => /\ FLt(pmt_out(Get(ac).pac[t], mc), Get(ac).pac[t])
              /\ FLt(mpt_out(Get(ac).pac[t], mc), mpt_in(Get(ac).pac[t], mc))

\* C3, amended: with peak-loss terms >= 0 and constant-loss terms > 0, at every
\* timestep within the rated capacity a transformer whose input is positive
\* puts out strictly less than its input, and a transformer whose input is 0
\* puts out 0, which equals its input.
C3_StrictLossAtPositiveInput ==
  (/\ AcComplete
   /\ Positive(mc.pmt_constant_loss) /\ Positive(mc.mpt_constant_loss)
   /\ NonNegative(mc.pmt_peak_loss) /\ NonNegative(mc.mpt_peak_loss))
    => \A t \in DOMAIN Get(ac).pac :
         LET pac == Get(ac).pac[t] IN
         WithinRating(t)
           => /\ Positive(pac) => FLt(pmt_out(pac, mc), pac)
              /\ pac = Z(0) => pmt_out(pac, mc) = Z(0)
              /\ Positive(mpt_in(pac, mc))
                   => FLt(mpt_out(pac, mc), mpt_in(pac, mc))
              /\ mpt_in(pac, mc) = Z(0) => mpt_out(pac, mc) = Z(0)

\* The AC stage has run on a series with a sample below the constant loss
\* (output clamped to 0) and a sample at rated load (both transformers pass
\* power), with positive constant losses.
C3_Witness ==
  /\ AcComplete
  /\ Positive(mc.pmt_constant_loss) /\ Positive(mc.mpt_constant_loss)
  /\ \E t, u \in DOMAIN Get(ac).pac :
       /\ WithinRating(t) /\ WithinRating(u)
       /\ Positive(Get(ac).pac[t])
       /\ FLt(Get(ac).pac[t], mc.pmt_constant_loss)
       /\ pmt_out(Get(ac).pac[t], mc) = Z(0)
       /\ Positive(mpt_out(Get(ac).pac[u], mc))
       /\ FLt(pmt_out(Get(ac).pac[u], mc), Get(ac).pac[u])

FMin(x, y) == IF FLt(y, x) THEN y ELSE x

\* C10: when run_plant_model has run after run_pvwatts_ac, plant.output[t] is
\* min(ac.output[t], poi_capacity) at every timestep; and whenever
\* 0 <= transmission_loss <= 1, 0 <= ac_collection <= 1 and poi_capacity >= 0,
\* 0 <= plant.output[t] <= poi_capacity, for every pac.
C10_PlantOutputWithinPoi ==
  /\ outcome = Ended("run_plant_model", "ok")
       => \A t \in DOMAIN Get(ac).output :
            Get(plant).output[t] = FMin(Get(ac).output[t], mc.poi_capacity)
  /\ (/\ PlantComplete
      /\ NonNegative(mc.transmission_loss) /\ FLe(mc.transmission_loss, Z(1))
      /\ NonNegative(mc.ac_collection) /\ FLe(mc.ac_collection, Z(1))
      /\ NonNegative(mc.poi_capacity))
       => \A t \in DOMAIN Get(plant).output :
            /\ NonNegative(Get(plant).output[t])
            /\ FLe(Get(plant).output[t], mc.poi_capacity)

\* The plant stage has run on a series with a negative pac and a pac a hundred
\* times the transformer rating: both transformers clamp and the plant puts out 0.
C10_Witness ==
  /\ outcome = Ended("run_plant_model", "ok")
  /\ Positive(mc.poi_capacity)
  /\ \E t, u \in DOMAIN Get(ac).pac :
       /\ FLt(Get(ac).pac[t], Z(0)) /\ Get(plant).output[t] = Z(0)
       /\ FLt(FMul(Z(50), mc.pmt_rating), Get(ac).pac[u])
       /\ Get(plant).output[u] = Z(0)

\* The frontside series the combination starts from.
FrontsideAt(t) ==
  IF system.backtrack THEN Get(effective_irradiance)[t] ELSE Get(front_irradiance)[t]

\* C4: with bifaciality 0, on the backtracking and on the other branch,
\* effective_irradiance_bifacial[t] equals the frontside term, whatever
\* back_irradiance and bifacial_losses are, and effective_irradiance_soiled[t]
\* is frontside[t] * (1 - soiling[t]).
C4_ZeroBifacialityIsFrontside ==
  (IrradianceComplete /\ system.module_parameters.bifaciality = Z(0))
    => \A t \in DOMAIN Get(effective_irradiance_bifacial) :
         /\ FEq(Get(effective_irradiance_bifacial)[t], FrontsideAt(t))
         /\ FEq(Get(effective_irradiance_soiled)[t],
                FMul(FrontsideAt(t), FSub(Z(1), Get(soiling)[t])))

\* A rooftop system (get_system sets its bifaciality to 0) with light on the
\* back of the modules and a bifacial loss.
C4_Witness ==
  /\ IrradianceComplete /\ system.module_parameters.bifaciality = Z(0)
  /\ ~system.tracker /\ Has(system.albedo)
  /\ mc.bifacial_losses # Z(0)
  /\ \E t \in DOMAIN Get(back_irradiance) :
       /\ Positive(Get(back_irradiance)[t])
       /\ Positive(Get(effective_irradiance_bifacial)[t])

\* C5: effective_irradiance_bifacial[t] is effective_irradiance[t] when
\* system.backtrack and front_irradiance[t] otherwise, plus
\* back_irradiance[t] * bifaciality * (1 - bifacial_losses); a system that is
\* not a tracker has backtrack = False.
C5_FrontsideChosenByBacktrack ==
  /\ ~system.tracker => ~system.backtrack
  /\ IrradianceComplete
       => \A t \in DOMAIN Get(effective_irradiance_bifacial) :
            Get(effective_irradiance_bifacial)[t] =
              FAdd(FrontsideAt(t),
                   FMul(FMul(Get(back_irradiance)[t],
                             system.module_parameters.bifaciality),
                        FSub(Z(1), mc.bifacial_losses)))

\* A backtracking tracker whose two frontside values differ: the combination
\* is above the pvlib value by the back term and is not the view-factor one.
C5_Witness ==
  /\ IrradianceComplete /\ system.backtrack
  /\ \E t \in DOMAIN Get(effective_irradiance_bifacial) :
       /\ Get(effective_irradiance)[t] # Get(front_irradiance)[t]
       /\ Positive(Get(back_irradiance)[t])
       /\ FLt(Get(effective_irradiance)[t], Get(effective_irradiance_bifacial)[t])
       /\ FLt(Get(effective_irradiance_bifacial)[t], Get(front_irradiance)[t])

\* C6 as the spec states it: no step changes the caller's weather object (its
\* index, its columns, its attributes).
C6_WeatherReadOnly == [][weather' = weather]_vars

\* The plain sum over the timesteps of plant.output[t] - plant.losses[t].
RECURSIVE NetPowerSum(_, _)
NetPowerSum(p, t) ==
  IF t = 0 THEN Z(0)
  ELSE FAdd(NetPowerSum(p, t - 1), FSub(p.output[t], p.losses[t]))

\* get_results has just computed the metrics from self.plant.
MetricsComputed == outcome.call = "get_results" /\ PlantComplete

\* C8: for a plant series of any length, ncf * poi_capacity * 8760 * 60 is
\* (sum of plant.output - sum of plant.losses) * time_step, so the divisor is
\* 8760 whatever the number of samples (with poi_capacity 0 the division gives
\* inf or NaN); with time_step = 60, aep is the plain sum of output - losses.
C8_NcfAgainstFixedYear ==
  MetricsComputed
    => LET net == NetPowerSum(Get(plant), Len(Get(plant).output)) IN
       /\ mc.poi_capacity # Z(0)
            => FMul(FMul(Get(ncf), mc.poi_capacity),
                    Z(HoursPerYear * MinutesPerHour))
                 = FMul(net, mc.time_step)
       /\ mc.poi_capacity = Z(0) => ~IsFin(Get(ncf))
       /\ mc.time_step = Z(MinutesPerHour) => Get(aep) = net

\* Metrics of a half-hourly series of two different samples: ncf is positive
\* and aep / poi_capacity / 8760, not aep over the hour the series spans.
C8_Witness ==
  /\ MetricsComputed /\ outcome.result = "ok"
  /\ Len(Get(plant).output) = 2
  /\ Get(plant).output[1] # Get(plant).output[2]
  /\ mc.time_step = Z(30)
  /\ Positive(Get(ncf))
  /\ Get(ncf) = FDiv(FDiv(Get(aep), mc.poi_capacity), Z(HoursPerYear))

\* C9 as the spec states it: get_results with dc_capacity == 0 or module
\* efficiency == 0 ends in a division fault.
C9_ZeroYieldsDivisionFault ==
  (MetricsComputed
   /\ (mc.dc_capacity = Z(0) \/ system.module_parameters.efficiency = Z(0)))
    => outcome.result = "ZeroDivisionError"

\* C9, amended: with module efficiency == 0 get_results raises
\* ZeroDivisionError after assigning aep, ncf and energy_yield, and pr is not
\* assigned; with dc_capacity == 0 and efficiency # 0 it raises nothing and
\* assigns an energy_yield and a pr that are inf or NaN; with neither 0 it ends
\* ok with a finite energy_yield.  No field is validated before the division:
\* dc_capacity is module_parameters['pdc0'] as given.
C9_ZeroEfficiencyRaisesZeroCapacityDoesNot ==
  /\ mc.dc_capacity = system.module_parameters.pdc0
  /\ MetricsComputed
       => /\ Has(aep) /\ Has(ncf) /\ Has(energy_yield)
          /\ system.module_parameters.efficiency = Z(0)
               => outcome.result = "ZeroDivisionError" /\ ~Has(pr)
          /\ (system.module_parameters.efficiency # Z(0) /\ mc.dc_capacity = Z(0))
               => /\ outcome.result = "ok"
                  /\ ~IsFin(Get(energy_yield))
                  /\ Has(pr) /\ ~IsFin(Get(pr))
          /\ (system.module_parameters.efficiency # Z(0) /\ mc.dc_capacity # Z(0))
               => outcome.result = "ok" /\ IsFin(Get(energy_yield)) /\ Has(pr)

\* get_results has ended ok with dc_capacity 0: energy_yield is +inf.
C9_Witness ==
  /\ MetricsComputed /\ outcome.result = "ok"
  /\ mc.dc_capacity = Z(0)
  /\ Positive(Get(aep))
  /\ Get(energy_yield) = PInf
  /\ Has(pr) /\ ~IsFin(Get(pr))

====
